---- MODULE Spec2Model ----
(***************************************************************************)
(* A state-machine model of the web backend of softbuffer (src/web.rs):    *)
(* one WebImpl surface bound to a canvas, its BufferImpl handle, and the   *)
(* part of the host (canvas element, 2D context, ImageData) the code       *)
(* drives.                                                                 *)
(*                                                                         *)
(* Integer widths.  TLC's integers are 32-bit signed, so a u32 dimension   *)
(* cannot be kept at its real width.  Dimensions are U32Bits wide in the   *)
(* model, and every other width is derived from it the way the program's   *)
(* is: i32 has one bit less, usize is one word (a 32-bit target) or two    *)
(* words (a 64-bit target), isize::MAX is half of usize::MAX, a pixel      *)
(* takes BytesPerPixel bytes.  Pixel values keep their real layout (bits   *)
(* 0-23 colour, bits 24 and up ignored); the model draws them below 2^31.  *)
(*                                                                         *)
(* Representation.  A Vec<u32> of length n is the record                   *)
(*   [len |-> n, px |-> the first Min(n, MaxTracked) elements]             *)
(* Writes in the model go to indices below MaxTracked only, and Vec::resize*)
(* zero-fills, so every element at or beyond MaxTracked is 0: the record   *)
(* determines the whole vector.  The bitmap (Vec<u8>) is kept the same     *)
(* way, and the canvas keeps its intrinsic size plus the pixels of its     *)
(* top-left View x View window.                                            *)
(*                                                                         *)
(* Build.  The pointer width is not fixed by the source (total_len is      *)
(* written for any usize) and is chosen in Init.  The image data is built  *)
(* as in the default build (no target_feature = "atomics").                *)
(***************************************************************************)
EXTENDS Integers, Sequences, FiniteSets, TLC

VARIABLES
    usizeBits,         \* width of usize on the build target: U32Bits or 2 * U32Bits
    bound,             \* WebImpl::new has returned Ok: the surface exists
    buffer,            \* WebImpl.buffer
    buffer_presented,  \* WebImpl.buffer_presented
    width,             \* WebImpl.width
    height,            \* WebImpl.height
    canvas,            \* the HtmlCanvasElement: intrinsic size and visible pixels
    handle,            \* a BufferImpl borrowing the surface is live
    panicked,          \* a panic (unwrap / expect / panic!) has ended the program
    call,              \* the most recent call: operation, arguments, return value
    images,            \* ImageData objects constructed by the most recent call
    paints,            \* putImageData calls made by the most recent call
    resized,           \* arguments of the most recent resize call (<<0,0>> if none)
    shown              \* a present has returned Ok since the dimensions last changed

vars == <<usizeBits, bound, buffer, buffer_presented, width, height, canvas,
          handle, panicked, call, images, paints, resized, shown>>

----------------------------------------------------------------------------
(* Bounds of the model *)

\* number of leading buffer elements kept explicitly (and writable)
MaxTracked == 2
\* side of the tracked top-left window of the canvas
View == 2
\* longest damage list passed to present_with_damage
MaxDamage == 2

(* Widths *)

\* width of a u32 dimension in the model (32 in the program, see above)
U32Bits == 6
\* size_of::<u32>(), and the number of bytes emitted per pixel
BytesPerPixel == 4

Min(a, b) == IF a < b THEN a ELSE b
Max(a, b) == IF a > b THEN a ELSE b

RECURSIVE Pow2(_)
Pow2(n) == IF n = 0 THEN 1 ELSE 2 * Pow2(n - 1)

I32Max == Pow2(U32Bits - 1) - 1
UsizeMax(bits) == Pow2(bits) - 1
IsizeMax(bits) == Pow2(bits - 1) - 1

----------------------------------------------------------------------------
(* Inputs *)

\* 0x00FF8040, and 0x7FFF8040, which differs from it in bits 24-30 only
Pixels == {0, 16744512, 2147451968}

\* Arguments of resize (NonZeroU32, NonZeroU32).  I32Max is the largest
\* dimension that is an i32, Top the first that is none (2^31 in the
\* program); Top x 2 is the first product that is no one-word usize (2^32
\* in the program); Top x Top fits two words, but not its size in bytes.
Top == I32Max + 1
Sizes == ({1, 2} \X {1, 2}) \cup
         { << I32Max, 1 >>, << Top, 1 >>, << 1, Top >>, << Top, 2 >>,
           << Top, Top >> }

Rect(x, y, w, h) == [x |-> x, y |-> y, width |-> w, height |-> h]

\* Damage rectangles: two disjoint ones, both inside a 2 x 2 surface, one
\* of them away from the origin
Rects == { Rect(0, 0, 1, 2), Rect(1, 1, 1, 1) }

DamageLists == UNION { [1..n -> Rects] : n \in 0..MaxDamage }

----------------------------------------------------------------------------
(* Vec<T> *)

EmptyVec == [len |-> 0, px |-> << >>]

\* v[i], for i < v.len
VecAt(v, i) == IF i < Len(v.px) THEN v.px[i + 1] ELSE 0

\* v[i] = val, for i < Len(v.px)
VecSet(v, i, val) == [v EXCEPT !.px[i + 1] = val]

\* faulty variant: a fresh zeroed Vec, the old elements lost
VecResize_fresh(v, n) ==
    [len |-> n, px |-> [k \in 1..Min(n, MaxTracked) |-> 0]]

\* Vec::resize(n, 0): truncates, or appends zeros
VecResize(v, n) ==
    [len |-> n,
     px  |-> [k \in 1..Min(n, MaxTracked) |->
                 IF k <= Len(v.px) THEN v.px[k] ELSE 0]]

\* A Vec of n elements of elemSize bytes can be allocated: its size in
\* bytes does not exceed isize::MAX (otherwise "capacity overflow")
Allocates(n, elemSize, bits) == n * elemSize <= IsizeMax(bits)

----------------------------------------------------------------------------
(* total_len: None is the panic! of the unwrap_or_else *)

None == -1

\* faulty variant: a wrapping multiplication instead of checked_mul
total_len_wrapping(w, h, bits) == (w * h) % (UsizeMax(bits) + 1)

total_len(w, h, bits) ==
    IF w <= UsizeMax(bits) /\ h <= UsizeMax(bits) /\ w * h <= UsizeMax(bits)
    THEN w * h
    ELSE None

----------------------------------------------------------------------------
(* The bitmap: four bytes per pixel *)

\* faulty variant: the alpha byte is taken from bits 24-31 of the pixel
ToBytes_alpha(pixel) ==
    << (pixel \div 65536) % 256, (pixel \div 256) % 256, pixel % 256,
       (pixel \div 16777216) % 256 >>

\* (pixel >> 16) as u8, (pixel >> 8) as u8, pixel as u8, 255
ToBytes(pixel) ==
    << (pixel \div 65536) % 256, (pixel \div 256) % 256, pixel % 256, 255 >>

\* faulty variant: three bytes per pixel, the alpha byte forgotten
Bitmap_rgb(buf) ==
    [len   |-> 3 * buf.len,
     bytes |-> [k \in 1..(3 * Len(buf.px)) |->
                   ToBytes(buf.px[((k - 1) \div 3) + 1])[((k - 1) % 3) + 1]]]

Bitmap(buf) ==
    [len   |-> BytesPerPixel * buf.len,
     bytes |-> [k \in 1..(BytesPerPixel * Len(buf.px)) |->
                   ToBytes(buf.px[((k - 1) \div BytesPerPixel) + 1])
                          [((k - 1) % BytesPerPixel) + 1]]]

\* byte k of a bitmap, for k < bm.len
BitmapAt(bm, k) ==
    IF k < Len(bm.bytes) THEN bm.bytes[k + 1]
    ELSE ToBytes(0)[(k % BytesPerPixel) + 1]

----------------------------------------------------------------------------
(* Host: ImageData, the canvas element and its 2D context *)

NoImage == [width |-> 0, height |-> 0, data |-> [len |-> 0, bytes |-> << >>]]

\* new ImageData(data, sw): throws (NoImage) unless the length of the data
\* is a nonzero multiple of 4 * sw
ImageDataNew(bm, sw) ==
    IF \/ bm.len = 0
       \/ sw = 0
       \/ bm.len % 4 # 0
       \/ (bm.len \div 4) % sw # 0
    THEN NoImage
    ELSE [width |-> sw, height |-> (bm.len \div 4) \div sw, data |-> bm]

\* the RGBA value of pixel (x, y) of an image
ImagePixel(img, x, y) ==
    [c \in 1..4 |-> BitmapAt(img.data, 4 * (y * img.width + x) + (c - 1))]

Transparent == << 0, 0, 0, 0 >>

Window(w, h) == (0..(Min(w, View) - 1)) \X (0..(Min(h, View) - 1))

\* canvas.width = w / canvas.height = h: sets the intrinsic size and clears
\* the bitmap to transparent black
SetWidth(cv, w) ==
    [width |-> w, height |-> cv.height,
     px |-> [p \in Window(w, cv.height) |-> Transparent]]

SetHeight(cv, h) ==
    [width |-> cv.width, height |-> h,
     px |-> [p \in Window(cv.width, h) |-> Transparent]]

\* ctx.putImageData(img, dx, dy, dirtyX, dirtyY, dirtyWidth, dirtyHeight):
\* the dirty rectangle is normalised and clipped to the image, and image
\* pixel (x, y) of it goes to canvas position (dx + x, dy + y)
PutImageData(cv, img, dx, dy, dirtyX, dirtyY, dirtyW, dirtyH) ==
    LET x0 == IF dirtyW < 0 THEN dirtyX + dirtyW ELSE dirtyX
        w0 == IF dirtyW < 0 THEN -dirtyW ELSE dirtyW
        y0 == IF dirtyH < 0 THEN dirtyY + dirtyH ELSE dirtyY
        h0 == IF dirtyH < 0 THEN -dirtyH ELSE dirtyH
        x1 == Max(x0, 0)
        w1 == IF x0 < 0 THEN w0 + x0 ELSE w0
        y1 == Max(y0, 0)
        h1 == IF y0 < 0 THEN h0 + y0 ELSE h0
        w2 == IF x1 + w1 > img.width THEN img.width - x1 ELSE w1
        h2 == IF y1 + h1 > img.height THEN img.height - y1 ELSE h1
        Src(p) == << p[1] - dx, p[2] - dy >>
        Hit(p) == /\ w2 > 0 /\ h2 > 0
                  /\ x1 <= Src(p)[1] /\ Src(p)[1] < x1 + w2
                  /\ y1 <= Src(p)[2] /\ Src(p)[2] < y1 + h2
    IN  [cv EXCEPT !.px = [p \in DOMAIN cv.px |->
            IF Hit(p) THEN ImagePixel(img, Src(p)[1], Src(p)[2])
            ELSE cv.px[p]]]

----------------------------------------------------------------------------
(* Return values and the record of the most recent call *)

Ok == [tag |-> "Ok", err |-> "", width |-> 0, height |-> 0]
Err(e, w, h) == [tag |-> "Err", err |-> e, width |-> w, height |-> h]
Panic(msg) == [tag |-> "Panic", err |-> msg, width |-> 0, height |-> 0]

\* old is the WebImpl's width, height and presented flag on entry to a resize
NoCall == [op |-> "", w |-> 0, h |-> 0, damage |-> << >>,
           old |-> << 0, 0, FALSE >>, ret |-> Ok]

\* the fields of the WebImpl
Imp == [buffer |-> buffer, buffer_presented |-> buffer_presented,
        width |-> width, height |-> height]

\* what a call leaves behind: the WebImpl, the canvas, the host calls it
\* made and its return value
Outcome(imp, cv, imgs, pts, ret) ==
    [imp |-> imp, canvas |-> cv, images |-> imgs, paints |-> pts, ret |-> ret]

----------------------------------------------------------------------------
(* WebImpl *)

\* faulty variant: the new surface starts out as presented
NewImp_presented ==
    [buffer |-> EmptyVec, buffer_presented |-> TRUE, width |-> 0, height |-> 0]

\* the fields WebImpl::new gives the surface: Ok(Self { .. })
NewImp ==
    [buffer |-> EmptyVec, buffer_presented |-> FALSE, width |-> 0, height |-> 0]

\* WebImpl::new, by what the document holds for the handle's id: found is
\* whether querySelector returns an element, ctx the outcome of
\* getContext("2d") ("throws", "null" or "2d").  The result is the return
\* value and, for Ok, the fields of the new WebImpl.
WebImpl_new(found, ctx) ==
    IF ~found THEN
        [ret |-> Err("No canvas found with the given id", 0, 0),
         made |-> FALSE, imp |-> Imp]
    ELSE IF ctx = "throws" THEN
        [ret |-> Err("Canvas already controlled using OffscreenCanvas", 0, 0),
         made |-> FALSE, imp |-> Imp]
    ELSE IF ctx = "null" THEN
        [ret |-> Err("A canvas context other than CanvasRenderingContext2d was already created", 0, 0),
         made |-> FALSE, imp |-> Imp]
    ELSE
        [ret |-> Ok, made |-> TRUE, imp |-> NewImp]

\* faulty variant: the dimensions are not compared, resize always reallocates
SameSize_never(imp, w, h) == FALSE

\* the condition of the if in resize, negated
SameSize(imp, w, h) == w = imp.width /\ h = imp.height

\* faulty variant: resize leaves the presented flag alone
Cleared_kept(imp) == imp

\* self.buffer_presented = false
Cleared(imp) == [imp EXCEPT !.buffer_presented = FALSE]

\* WebImpl::resize
resize(imp, cv, w, h, bits) ==
    IF ~SameSize(imp, w, h) THEN
        LET cleared == Cleared(imp)
            n == total_len(w, h, bits)
        IN  IF n = None THEN
                Outcome(cleared, cv, << >>, << >>,
                        Panic("Overflow when calculating total length of buffer"))
            ELSE IF ~Allocates(n, BytesPerPixel, bits) THEN
                Outcome(cleared, cv, << >>, << >>, Panic("capacity overflow"))
            ELSE
                Outcome([cleared EXCEPT !.buffer = VecResize(imp.buffer, n),
                                        !.width = w, !.height = h],
                        SetHeight(SetWidth(cv, w), h), << >>, << >>, Ok)
    ELSE
        Outcome(imp, cv, << >>, << >>, Ok)

\* faulty variant: the width and the height of the dirty rectangle are swapped
PaintArgs_swapped(r) ==
    [image |-> 1, dx |-> r.x, dy |-> r.y,
     dirtyX |-> r.x, dirtyY |-> r.y, dirtyW |-> r.height, dirtyH |-> r.width]

\* the arguments of one putImageData call, for one damage rectangle
PaintArgs(r) ==
    [image |-> 1, dx |-> r.x, dy |-> r.y,
     dirtyX |-> r.x, dirtyY |-> r.y, dirtyW |-> r.width, dirtyH |-> r.height]

Paint(cv, img, a) ==
    PutImageData(cv, img, a.dx, a.dy, a.dirtyX, a.dirtyY, a.dirtyW, a.dirtyH)

\* the for loop over the damage list
RECURSIVE PaintAll(_, _, _)
PaintAll(cv, img, pts) ==
    IF pts = << >> THEN cv
    ELSE PaintAll(Paint(cv, img, Head(pts)), img, Tail(pts))

\* faulty variant: the flag is set only when something was painted
Presented_if_painted(imp, damage) ==
    IF damage = << >> THEN imp ELSE [imp EXCEPT !.buffer_presented = TRUE]

\* self.buffer_presented = true, at the end of present_with_damage(damage)
Presented(imp, damage) == [imp EXCEPT !.buffer_presented = TRUE]

\* WebImpl::present_with_damage
present_with_damage(imp, cv, damage) ==
    LET bitmap == Bitmap(imp.buffer)
        image_data == ImageDataNew(bitmap, imp.width)
        pts == [k \in 1..Len(damage) |-> PaintArgs(damage[k])]
    IN  IF image_data = NoImage THEN
            Outcome(imp, cv, << >>, << >>,
                    Panic("Result::unwrap on an Err value"))
        ELSE
            Outcome(Presented(imp, damage),
                    PaintAll(cv, image_data, pts), << image_data >>, pts, Ok)

----------------------------------------------------------------------------
(* BufferImpl *)

\* faulty variant: the age of a presented buffer is reported as 2
age_two(imp) == IF imp.buffer_presented THEN 2 ELSE 0

\* BufferImpl::age
age(imp) == IF imp.buffer_presented THEN 1 ELSE 0

\* BufferImpl::pixels: the whole buffer, as a slice
pixels(imp) == imp.buffer

\* faulty variant: a store through the slice marks the buffer unpresented
pixels_mut_resets_age(imp, i, val) ==
    [imp EXCEPT !.buffer = VecSet(imp.buffer, i, val),
                !.buffer_presented = FALSE]

\* BufferImpl::pixels_mut, followed by the store pixels[i] = val
pixels_mut(imp, i, val) == [imp EXCEPT !.buffer = VecSet(imp.buffer, i, val)]

\* faulty variant: the largest i32 is rejected too
FitsI32_strict(n) == n < I32Max

\* i32::try_from(n).ok() is Some
FitsI32(n) == n <= I32Max

\* faulty variant: width and height are swapped
FullRect_swapped(imp) == Rect(0, 0, imp.height, imp.width)

\* the damage rectangle present() builds
FullRect(imp) == Rect(0, 0, imp.width, imp.height)

\* faulty variant: the error value is built only when it is needed
\* (ok_or_else), so that nothing panics here
ErrorValuePanics_lazy(imp) == FALSE

\* the argument of ok_or is evaluated before ok_or is called, whatever the
\* Option holds: NonZeroU32::new(0) is None and its unwrap panics
ErrorValuePanics(imp) == imp.width = 0 \/ imp.height = 0

\* BufferImpl::present
present(imp, cv) ==
    IF ErrorValuePanics(imp) THEN
        Outcome(imp, cv, << >>, << >>,
                Panic("Option::unwrap on a None value"))
    ELSE IF ~FitsI32(imp.width) \/ ~FitsI32(imp.height) THEN
        Outcome(imp, cv, << >>, << >>,
                Err("SizeOutOfRange", imp.width, imp.height))
    ELSE
        present_with_damage(imp, cv, << FullRect(imp) >>)

\* BufferImpl::present_with_damage
handle_present_with_damage(imp, cv, damage) == present_with_damage(imp, cv, damage)

----------------------------------------------------------------------------
(* The state machine *)

Init ==
    /\ usizeBits \in {U32Bits, 2 * U32Bits}
    /\ bound = FALSE
    /\ buffer = EmptyVec
    /\ buffer_presented = FALSE
    /\ width = 0
    /\ height = 0
    /\ canvas = [width |-> 2, height |-> 1,
                 px |-> [p \in Window(2, 1) |-> Transparent]]
    /\ handle = FALSE
    /\ panicked = FALSE
    /\ call = NoCall
    /\ images = << >>
    /\ paints = << >>
    /\ resized = << 0, 0 >>
    /\ shown = FALSE

\* faulty variant: the exclusive borrow is not enforced
Unborrowed_unchecked == TRUE

\* resize and buffer_mut take &mut self, and a BufferImpl<'a> holds the
\* &'a mut WebImpl for as long as it lives: they can be called only while
\* no handle is live
Unborrowed == ~handle

\* faulty variant: present(&self) leaves the handle usable
Consumed_kept == handle

\* present(self) and present_with_damage(self, ..) take the handle by
\* value: it is gone when they return
Consumed == FALSE

\* the state after a call on the surface
Apply(out) ==
    /\ buffer' = out.imp.buffer
    /\ buffer_presented' = out.imp.buffer_presented
    /\ width' = out.imp.width
    /\ height' = out.imp.height
    /\ canvas' = out.canvas
    /\ images' = out.images
    /\ paints' = out.paints
    /\ panicked' = (out.ret.tag = "Panic")

Bind(found, ctx) ==
    /\ ~bound /\ ~panicked
    /\ LET r == WebImpl_new(found, ctx)
       IN  /\ bound' = r.made
           /\ Apply(Outcome(r.imp, canvas, << >>, << >>, r.ret))
           /\ call' = [NoCall EXCEPT !.op = "new", !.ret = r.ret]
    /\ UNCHANGED <<usizeBits, handle, resized, shown>>

\* surface.resize(w, h): needs the surface unborrowed (&mut self)
Resize(w, h) ==
    /\ bound /\ Unborrowed /\ ~panicked
    /\ LET out == resize(Imp, canvas, w, h, usizeBits)
       IN  /\ Apply(out)
           /\ call' = [NoCall EXCEPT !.op = "resize", !.w = w, !.h = h,
                                     !.old = << width, height, buffer_presented >>,
                                     !.ret = out.ret]
    /\ resized' = << w, h >>
    /\ shown' = (shown /\ width' = width /\ height' = height)
    /\ UNCHANGED <<usizeBits, bound, handle>>

\* surface.buffer_mut(): borrows the surface for the life of the handle
BufferMut ==
    /\ bound /\ Unborrowed /\ ~panicked
    /\ handle' = TRUE
    /\ Apply(Outcome(Imp, canvas, << >>, << >>, Ok))
    /\ call' = [NoCall EXCEPT !.op = "buffer_mut"]
    /\ UNCHANGED <<usizeBits, bound, resized, shown>>

\* handle.pixels_mut()[i] = val, for an index inside the slice
Write(i, val) ==
    /\ handle /\ ~panicked
    /\ i < Len(buffer.px)
    /\ Apply(Outcome(pixels_mut(Imp, i, val), canvas, << >>, << >>, Ok))
    /\ call' = [NoCall EXCEPT !.op = "pixels_mut"]
    /\ UNCHANGED <<usizeBits, bound, handle, resized, shown>>

\* handle.pixels() and handle.age(): take &self, return a value
Read(op) ==
    /\ handle /\ ~panicked
    /\ Apply(Outcome(Imp, canvas, << >>, << >>, Ok))
    /\ call' = [NoCall EXCEPT !.op = op]
    /\ UNCHANGED <<usizeBits, bound, handle, resized, shown>>

\* the handle goes out of scope unpresented
Drop ==
    /\ handle /\ ~panicked
    /\ handle' = FALSE
    /\ Apply(Outcome(Imp, canvas, << >>, << >>, Ok))
    /\ call' = [NoCall EXCEPT !.op = "drop"]
    /\ UNCHANGED <<usizeBits, bound, resized, shown>>

\* handle.present(): consumes the handle
Present ==
    /\ handle /\ ~panicked
    /\ LET out == present(Imp, canvas)
       IN  /\ Apply(out)
           /\ call' = [NoCall EXCEPT !.op = "present", !.ret = out.ret]
    /\ handle' = Consumed
    /\ shown' = (shown \/ call'.ret = Ok)
    /\ UNCHANGED <<usizeBits, bound, resized>>

\* handle.present_with_damage(damage): consumes the handle
PresentWithDamage(damage) ==
    /\ handle /\ ~panicked
    /\ LET out == handle_present_with_damage(Imp, canvas, damage)
       IN  /\ Apply(out)
           /\ call' = [NoCall EXCEPT !.op = "present_with_damage",
                                     !.damage = damage, !.ret = out.ret]
    /\ handle' = Consumed
    /\ shown' = (shown \/ call'.ret = Ok)
    /\ UNCHANGED <<usizeBits, bound, resized>>

Next ==
    \/ \E found \in BOOLEAN, ctx \in {"throws", "null", "2d"} : Bind(found, ctx)
    \/ \E s \in Sizes : Resize(s[1], s[2])
    \/ BufferMut
    \/ \E i \in 0..(MaxTracked - 1), val \in Pixels : Write(i, val)
    \/ \E op \in {"pixels", "age"} : Read(op)
    \/ Drop
    \/ Present
    \/ \E damage \in DamageLists : PresentWithDamage(damage)

Spec == Init /\ [][Next]_vars

----------------------------------------------------------------------------
(* Claims *)

Presents == {"present", "present_with_damage"}

\* C1: the buffer always holds width * height pixels, and as long as no
\* call has failed fatally width and height are the arguments of the most
\* recent resize call (0 and 0 before any).
C1_BufferLen ==
    /\ buffer.len = width * height
    /\ Len(buffer.px) = Min(buffer.len, MaxTracked)
    /\ ~panicked => << width, height >> = resized

\* a resized surface that was then written to
C1_Witness ==
    /\ call.op = "pixels_mut" /\ ~buffer_presented
    /\ width = 2 /\ height = 1 /\ buffer.len = 2
    /\ canvas.width = 2 /\ canvas.height = 1

\* C2 as stated: after any resize that returned, age() on a fresh handle
\* (buffer_mut changes no field) is 0.
C2_AgeZeroAfterAnyResize ==
    (call.op = "resize" /\ call.ret.tag = "Ok") => age(Imp) = 0

\* C2, amended: a resize to dimensions other than the current ones that
\* returns leaves age() at 0, and acquiring a handle does not change age().
C2_AgeZeroAfterResize ==
    [][ /\ ( /\ call'.op = "resize" /\ call'.ret.tag = "Ok"
             /\ (call'.w # width \/ call'.h # height) )
           => age(Imp)' = 0
        /\ call'.op = "buffer_mut" => age(Imp)' = age(Imp) ]_vars

\* a presented 2 x 2 surface has just been resized to another size
C2_Witness ==
    /\ call.op = "resize" /\ call.ret.tag = "Ok"
    /\ call.old = << 2, 2, TRUE >> /\ << width, height >> # << 2, 2 >>
    /\ age(Imp) = 0

\* C3: a present or present_with_damage that succeeds leaves age() at 1,
\* also for an empty damage list, and age() stays 1 over every call other
\* than resize.
C3_AgeOneAfterPresent ==
    [][ /\ (call'.op \in Presents /\ call'.ret.tag = "Ok") => age(Imp)' = 1
        /\ (age(Imp) = 1 /\ call'.op # "resize") => age(Imp)' = 1 ]_vars

\* an empty damage list has just been presented
C3_Witness ==
    /\ call.op = "present_with_damage" /\ call.damage = << >>
    /\ call.ret.tag = "Ok" /\ paints = << >>
    /\ age(Imp) = 1

\* C4: resize to the current dimensions returns Ok and changes neither the
\* buffer, the presented flag, the dimensions nor the canvas.
C4_SameSizeNoOp ==
    [][ (call'.op = "resize" /\ call'.w = width /\ call'.h = height)
        => /\ call'.ret = Ok
           /\ UNCHANGED << buffer, buffer_presented, width, height, canvas >>
      ]_vars

\* a resize that left a presented, painted surface with content as it was
C4_Witness ==
    /\ call.op = "resize" /\ call.old = << width, height, TRUE >>
    /\ buffer_presented
    /\ VecAt(buffer, 0) # 0
    /\ canvas.px[<< 0, 0 >>] # Transparent

\* r lies inside a w x h surface
Inside(r, w, h) ==
    /\ 0 <= r.x /\ 0 <= r.y /\ 0 < r.width /\ 0 < r.height
    /\ r.x + r.width <= w /\ r.y + r.height <= h

\* position p lies in rectangle r
Covers(r, p) ==
    /\ r.x <= p[1] /\ p[1] < r.x + r.width
    /\ r.y <= p[2] /\ p[2] < r.y + r.height

\* the bytes of pixel value p, each taken as a bit field of p
Channels(p) ==
    << (p % 16777216) \div 65536, (p % 65536) \div 256, p % 256, 255 >>

\* C5: present_with_damage with rectangles inside the surface makes every
\* visible pixel inside one of them show the converted buffer element at
\* its position and leaves every other visible pixel as it was.
C5_DamagePaintsItsRects ==
    [][ ( /\ call'.op = "present_with_damage" /\ call'.ret.tag = "Ok"
          /\ \A k \in 1..Len(call'.damage) :
                Inside(call'.damage[k], width, height) )
        => \A p \in DOMAIN canvas.px :
              canvas'.px[p] =
                 IF \E k \in 1..Len(call'.damage) : Covers(call'.damage[k], p)
                 THEN Channels(VecAt(buffer, p[2] * width + p[1]))
                 ELSE canvas.px[p] ]_vars

\* C6: present() on a surface whose dimensions are both in 1..i32::MAX
\* makes one paint call, for the rectangle (0, 0, width, height), and has
\* the outcome of present_with_damage for that one rectangle.
C6_PresentIsFullDamage ==
    [][ ( /\ call'.op = "present"
          /\ 1 <= width /\ width <= I32Max
          /\ 1 <= height /\ height <= I32Max )
        => LET out == present_with_damage(Imp, canvas,
                                          << Rect(0, 0, width, height) >>)
           IN  /\ Len(paints') = 1
               /\ paints'[1].dirtyX = 0 /\ paints'[1].dirtyY = 0
               /\ paints'[1].dirtyW = width /\ paints'[1].dirtyH = height
               /\ Imp' = out.imp /\ canvas' = out.canvas
               /\ images' = out.images /\ paints' = out.paints
               /\ call'.ret = out.ret ]_vars

\* a 2 x 1 surface (width and height differ) has just been presented
C6_Witness ==
    /\ call.op = "present" /\ call.ret.tag = "Ok"
    /\ width = 2 /\ height = 1 /\ Len(paints) = 1

C8_SizeOutOfRange ==
    [][ call'.op = "present"
        => /\ (width > I32Max \/ height > I32Max)
                => /\ call'.ret = Err("SizeOutOfRange", width, height)
                   /\ images' = << >> /\ paints' = << >>
                   /\ UNCHANGED << buffer, buffer_presented, width, height,
                                   canvas >>
           /\ call'.ret.err = "SizeOutOfRange"
                => (width > I32Max \/ height > I32Max) ]_vars

\* present() has just returned SizeOutOfRange for a surface of width Top
C8_Witness ==
    /\ call.op = "present"
    /\ call.ret = Err("SizeOutOfRange", Top, 1)
    /\ width = Top /\ height = 1 /\ buffer.len = Top

\* C9: the image data of a present holds 4 * width * height bytes; the
\* four bytes of pixel i are bits 16-23, 8-15 and 0-7 of buffer element i
\* and 255, so that elements equal in bits 0-23 give equal bytes.
C9_BytesOfPixels ==
    \A n \in 1..Len(images) :
        LET bm == images[n].data
            Quad(i) == << BitmapAt(bm, 4 * i), BitmapAt(bm, 4 * i + 1),
                          BitmapAt(bm, 4 * i + 2), BitmapAt(bm, 4 * i + 3) >>
            Idx == 0..(Min(buffer.len, MaxTracked + 1) - 1)
        IN  /\ bm.len = 4 * width * height
            /\ \A i \in Idx : Quad(i) = Channels(VecAt(buffer, i))
            /\ \A i, j \in Idx :
                  VecAt(buffer, i) % 16777216 = VecAt(buffer, j) % 16777216
                     => Quad(i) = Quad(j)

\* a buffer holding 0x00FF8040 and 0x7FFF8040 has just been presented
C9_Witness ==
    /\ Len(images) = 1
    /\ VecAt(buffer, 0) = 16744512 /\ VecAt(buffer, 1) = 2147451968
    /\ BitmapAt(images[1].data, 0) = 255 /\ BitmapAt(images[1].data, 4) = 255

\* C10 as stated: a call fails fatally only when a handle is used on a
\* surface that was never resized.
C10_NoFatalUnderCorrectUse ==
    panicked => (call.op \in Presents /\ width = 0)

\* C10, amended: a call fails fatally only when it is a resize whose
\* buffer, of 4 * w * h bytes, exceeds isize::MAX (which holds whenever
\* w * h is not representable), or when a handle is used on a surface that
\* was never resized.
C10_FatalOnlyOversizeOrUnsized ==
    panicked =>
        \/ /\ call.op = "resize"
           /\ call.w * call.h * BytesPerPixel > IsizeMax(usizeBits)
        \/ /\ call.op \in Presents /\ width = 0

\* under correct use a presented surface gets a typed error from present()
C10_Witness ==
    /\ ~panicked /\ buffer_presented
    /\ call.op = "present" /\ call.ret.tag = "Err"

\* operations made through a BufferImpl
HandleOps == {"pixels", "pixels_mut", "age", "present", "present_with_damage",
              "drop"}

\* C11: while a handle is live neither resize nor a second buffer_mut
\* runs; every operation of a handle runs on a live handle; and a present
\* or present_with_damage, whatever it returns, leaves no live handle, so
\* that nothing more can be done through the one it consumed.
C11_OneHandle ==
    [][ /\ handle => call'.op \notin {"resize", "buffer_mut", "new"}
        /\ call'.op \in HandleOps => handle
        /\ call'.op \in Presents => ~handle' ]_vars

\* a present has returned a typed error and its handle is gone
C11_Witness ==
    /\ call.op = "present" /\ call.ret.tag = "Err" /\ ~handle /\ ~panicked

\* C12: WebImpl::new either returns one of its three typed errors and no
\* surface exists, or returns Ok and the surface has width 0, height 0, an
\* empty buffer and age() 0.
C12_BindOutcomes ==
    [][ call'.op = "new"
        => \/ /\ call'.ret.tag = "Err" /\ ~bound'
              /\ call'.ret.err \in
                    { "No canvas found with the given id",
                      "Canvas already controlled using OffscreenCanvas",
                      "A canvas context other than CanvasRenderingContext2d was already created" }
           \/ /\ call'.ret = Ok /\ bound'
              /\ width' = 0 /\ height' = 0
              /\ buffer'.len = 0 /\ buffer'.px = << >>
              /\ ~buffer_presented' /\ age(Imp)' = 0 ]_vars

\* the state right after a successful bind
C12_Witness ==
    /\ call.op = "new" /\ call.ret = Ok /\ bound
    /\ width = 0 /\ buffer.len = 0 /\ age(Imp) = 0

\* what C13 says a resize(w, h) does, between the state before the call
\* and the state after it
ResizeEffect(w, h) ==
    /\ buffer'.len = w * h
    /\ \A i \in 0..(MaxTracked - 1) :
          /\ i < Min(buffer.len, w * h) => VecAt(buffer', i) = VecAt(buffer, i)
          /\ (buffer.len <= i /\ i < w * h) => VecAt(buffer', i) = 0
    /\ canvas'.width = w /\ canvas'.height = h
    /\ ~buffer_presented'

\* C13 as stated: every resize to other dimensions whose w*h is
\* representable in usize has the effect.  Violated: w*h elements of four
\* bytes can exceed isize::MAX, and Vec::resize then panics.
C13_ResizeWhenRepresentable ==
    [][ ( /\ call'.op = "resize"
          /\ << call'.w, call'.h >> # << width, height >>
          /\ call'.w * call'.h <= UsizeMax(usizeBits) )
        => ResizeEffect(call'.w, call'.h) ]_vars

\* C13, amended: a resize to other dimensions whose buffer of 4*w*h bytes
\* does not exceed isize::MAX returns Ok, sets the buffer length to w*h,
\* keeps every element below min(old length, w*h), zeroes the added ones,
\* sets the canvas width and height to w and h, and clears presented.
C13_ResizeWhenAllocatable ==
    [][ ( /\ call'.op = "resize"
          /\ << call'.w, call'.h >> # << width, height >>
          /\ BytesPerPixel * call'.w * call'.h <= IsizeMax(usizeBits) )
        => /\ call'.ret = Ok
           /\ width' = call'.w /\ height' = call'.h
           /\ ResizeEffect(call'.w, call'.h) ]_vars

\* a 1x1 surface holding a written pixel has grown: the pixel is kept, the
\* added element is 0
C13_Witness ==
    /\ call.op = "resize" /\ call.ret = Ok
    /\ call.old[1] = 1 /\ call.old[2] = 1 /\ buffer.len > 1
    /\ VecAt(buffer, 0) # 0 /\ VecAt(buffer, 1) = 0
    /\ canvas.width = width /\ canvas.height = height /\ ~buffer_presented

\* C14: buffer_mut, pixels, pixels_mut, age and the drop of an unpresented
\* handle make no image and no paint call and leave presented, width,
\* height and the canvas as they were; a store through pixels_mut changes
\* the one element written, and none of the others changes the buffer, so
\* that a later handle's pixels() holds every value written.
C14_UnpresentedHandle ==
    [][ call'.op \in {"buffer_mut", "pixels", "pixels_mut", "age", "drop"}
        => /\ UNCHANGED << buffer_presented, width, height, canvas >>
           /\ age(Imp)' = age(Imp)
           /\ images' = << >> /\ paints' = << >>
           /\ call'.op # "pixels_mut" => pixels(Imp)' = pixels(Imp)
           /\ call'.op = "pixels_mut" =>
                 \E i \in 0..(MaxTracked - 1), val \in Pixels :
                    /\ i < Len(buffer.px)
                    /\ pixels(Imp)' = VecSet(pixels(Imp), i, val) ]_vars

\* a presented surface whose first pixel was black on the canvas holds a
\* value written since, read through a handle, and is still presented
C14_Witness ==
    /\ call.op = "pixels" /\ handle /\ buffer_presented
    /\ VecAt(pixels(Imp), 0) # 0
    /\ canvas.px[<< 0, 0 >>] = ToBytes(0)
    /\ images = << >> /\ paints = << >>

\* C15: a resize(w, h) whose product does not fit usize panics; the buffer
\* keeps its length and elements (no wrapped-around length), and width,
\* height and the canvas dimensions keep their values.
C15_OverflowIsFatal ==
    [][ ( /\ call'.op = "resize"
          /\ call'.w * call'.h > UsizeMax(usizeBits) )
        => /\ call'.ret.tag = "Panic" /\ panicked'
           /\ UNCHANGED << buffer, width, height, canvas >> ]_vars

\* a 2x2 surface was asked for a size whose product wraps to 0 and panicked
\* with its four elements and its dimensions intact
C15_Witness ==
    /\ call.op = "resize" /\ panicked
    /\ call.w * call.h > UsizeMax(usizeBits)
    /\ (call.w * call.h) % (UsizeMax(usizeBits) + 1) = 0
    /\ width = 2 /\ height = 2 /\ buffer.len = 4
    /\ canvas.width = 2 /\ canvas.height = 2

\* C16: while the program runs, age() is 1 exactly when a present or
\* present_with_damage has returned Ok since the dimensions last changed
\* (or since the bind), and 0 otherwise; stores through pixels_mut do not
\* reset it, and it is never anything but 0 or 1.
C16_AgeIsPresentedSinceResize ==
    (bound /\ ~panicked)
        => /\ age(Imp) = (IF shown THEN 1 ELSE 0)
           /\ age(Imp) \in {0, 1}

\* a pixel was written after a present that painted black at (0, 0), and
\* age() is still 1
C16_Witness ==
    /\ call.op = "pixels_mut" /\ shown /\ age(Imp) = 1
    /\ VecAt(buffer, 0) # 0
    /\ canvas.px[<< 0, 0 >>] = ToBytes(0)

\* C17: present() on a surface that was bound and never resized (width and
\* height 0) panics in the unwrap of NonZeroU32::new(0), having made no
\* image and no paint call and with presented still false: it returns
\* neither Ok nor a typed error.
C17_PresentUnsizedIsFatal ==
    [][ ( /\ call'.op = "present"
          /\ width = 0 /\ height = 0 )
        => /\ call'.ret = Panic("Option::unwrap on a None value")
           /\ panicked'
           /\ images' = << >> /\ paints' = << >>
           /\ ~buffer_presented'
           /\ UNCHANGED << buffer, width, height, canvas >> ]_vars

\* a present on the surface as WebImpl::new left it has panicked
C17_Witness ==
    /\ call.op = "present" /\ panicked /\ resized = << 0, 0 >>
    /\ width = 0 /\ height = 0 /\ buffer.len = 0
    /\ FitsI32(width) /\ FitsI32(height)
    /\ ~buffer_presented /\ paints = << >>

====
